---- MODULE Spec2Model ----
(***************************************************************************)
(* Model of scripts/merge_dict.py: the merge (upsert) of per-mod           *)
(* translation pairs into the dict table, the regeneration of Dict.json    *)
(* and Dict-Mini.json from the committed table, and the diff.json /        *)
(* release_body.md accounting of one run of main().                        *)
(***************************************************************************)
EXTENDS Integers, Sequences, FiniteSets, TLC

VARIABLES
    pc,               \* position of main(): "start", "merge", "commit", "regen", "diff", "body", "done"
    run,              \* number of the current invocation of main()
    db,               \* rows of the committed output/Dict-Sqlite.db file, in rowid order
    store,            \* rows of the dict table as seen through conn/cursor (uncommitted writes included)
    mod_entries,      \* main(): result of scan_assets()
    idx,              \* main(): position of the for loop over mod_entries
    summaries,        \* main(): summaries
    all_diff_entries, \* main(): all_diff_entries
    writes,           \* rows written through cursor.executemany during this run, in execution order
    jsonFile,         \* output/Dict.json
    miniFile,         \* output/Dict-Mini.json
    diffFile,         \* output/diff.json
    releaseBody       \* output/release_body.md

vars == <<pc, run, db, store, mod_entries, idx, summaries, all_diff_entries,
          writes, jsonFile, miniFile, diffFile, releaseBody>>

----------------------------------------------------------------------------
(* Bounds of the model and constants of the program.                       *)

MaxOriginLen == 50      \* regenerate_release_files: len(origin_name) > 50
MaxRuns == 2            \* invocations of main() on the same output directory
MaxRankRows == 5        \* rows of a table drawn for the ranking of Dict-Mini.json
MaxFilterRows == 3      \* rows of a table drawn for the length filter

----------------------------------------------------------------------------
(* Generic helpers.                                                        *)

Range(s) == {s[i] : i \in 1..Len(s)}

SeqsUpTo(S, n) == UNION {[1..m -> S] : m \in 0..n}

RECURSIVE SetToSeqs(_)
\* every sequence that enumerates the finite set S exactly once
SetToSeqs(S) ==
    IF S = {} THEN {<<>>}
    ELSE UNION {{<<x>> \o t : t \in SetToSeqs(S \ {x})} : x \in S}

Count(s, e) == Cardinality({i \in 1..Len(s) : s[i] = e})

\* a file of the output directory: absent, or present with a content
Absent == [exists |-> FALSE, content |-> <<>>]
Written(c) == [exists |-> TRUE, content |-> c]

----------------------------------------------------------------------------
(* regenerate_release_files: Dict.json and Dict-Mini.json from the table.  *)

\* one element of all_entries, built from a row of SELECT ... FROM dict
Entry(r) ==
    [origin_name |-> r.ORIGIN_NAME, trans_name |-> r.TRANS_NAME,
     modid |-> r.MODID, key |-> r.KEY, version |-> r.VERSION,
     curseforge |-> r.CURSEFORGE]

all_entries(rows) == [i \in 1..Len(rows) |-> Entry(rows[i])]

Excluded_OffByOne(entry) ==
    Len(entry.origin_name) >= MaxOriginLen \/ entry.origin_name = ""

\* if len(entry["origin_name"]) > 50 or entry["origin_name"] == "": continue
Excluded(entry) ==
    Len(entry.origin_name) > MaxOriginLen \/ entry.origin_name = ""

\* integral_mini_temp[origin].append(trans) on a defaultdict(list): the
\* mapping keeps its keys in the order of their first insertion
GroupAppend(temp, origin, trans) ==
    IF \E g \in 1..Len(temp) : temp[g].origin = origin
    THEN [g \in 1..Len(temp) |->
            IF temp[g].origin = origin
            THEN [temp[g] EXCEPT !.trans_list = Append(@, trans)]
            ELSE temp[g]]
    ELSE Append(temp, [origin |-> origin, trans_list |-> <<trans>>])

RECURSIVE ScanEntries(_, _, _, _)
\* for entry in all_entries: ... (the loop that fills integral and integral_mini_temp)
ScanEntries(entries, i, integral, temp) ==
    IF i > Len(entries)
    THEN [integral |-> integral, integral_mini_temp |-> temp]
    ELSE LET entry == entries[i] IN
         IF Excluded(entry)
         THEN ScanEntries(entries, i + 1, integral, temp)
         ELSE ScanEntries(entries, i + 1, Append(integral, entry),
                  IF entry.origin_name /= entry.trans_name
                  THEN GroupAppend(temp, entry.origin_name, entry.trans_name)
                  ELSE temp)

\* Counter(trans_list): a dict subclass, so items() come in first-insertion order
CounterAdd(c, item) ==
    IF \E j \in 1..Len(c) : c[j].item = item
    THEN [j \in 1..Len(c) |->
            IF c[j].item = item THEN [c[j] EXCEPT !.n = @ + 1] ELSE c[j]]
    ELSE Append(c, [item |-> item, n |-> 1])

RECURSIVE Counter(_, _, _)
Counter(trans_list, i, c) ==
    IF i > Len(trans_list) THEN c
    ELSE Counter(trans_list, i + 1, CounterAdd(c, trans_list[i]))

InsertByCount_TiesReversed(sorted, it) ==
    LET k == Cardinality({j \in 1..Len(sorted) : sorted[j].n > it.n})
    IN  SubSeq(sorted, 1, k) \o <<it>> \o SubSeq(sorted, k + 1, Len(sorted))

\* one step of sorted(items, key=itemgetter(1), reverse=True): the sort is
\* stable, so an item goes after every item already placed whose count is
\* at least its own
InsertByCount(sorted, it) ==
    LET k == Cardinality({j \in 1..Len(sorted) : sorted[j].n >= it.n})
    IN  SubSeq(sorted, 1, k) \o <<it>> \o SubSeq(sorted, k + 1, Len(sorted))

RECURSIVE SortedByCount(_, _, _)
SortedByCount(items, i, sorted) ==
    IF i > Len(items) THEN sorted
    ELSE SortedByCount(items, i + 1, InsertByCount(sorted, items[i]))

\* [item for item, _ in Counter(trans_list).most_common()]
most_common(trans_list) ==
    LET s == SortedByCount(Counter(trans_list, 1, <<>>), 1, <<>>)
    IN  [j \in 1..Len(s) |-> s[j].item]

integral_mini_final(temp) ==
    [g \in 1..Len(temp) |->
        [origin |-> temp[g].origin, trans_list |-> most_common(temp[g].trans_list)]]

\* json_path.write_text(text) only if text != "[]" (resp. "{}"): json.dumps
\* gives "[]" exactly for the empty list and "{}" exactly for the empty dict;
\* a file that is not written keeps whatever the directory already held
WriteUnlessEmpty(old, content) ==
    IF content /= <<>> THEN Written(content) ELSE old

----------------------------------------------------------------------------
(* merge_mod_entries: one scope merged into the table through the cursor.  *)

\* a JSON value of en_us.json / zh_cn.json: a string, or anything else
Str(s) == [str |-> TRUE, text |-> s]
Obj == [str |-> FALSE, text |-> ""]

\* isinstance(v, str)
IsStr(v) == v.str

\* a parsed file: json.load either returns a mapping or raises
Parsed(m) == [readable |-> TRUE, data |-> m]
Unreadable == [readable |-> FALSE, data |-> [k \in {} |-> Obj]]

\* common_keys = en_data.keys() & zh_data.keys()
common_keys(mod_info) == DOMAIN mod_info.en.data \cap DOMAIN mod_info.zh.data

Max(S) == CHOOSE m \in S : \A x \in S : x <= m

Selected_SwappedParams(rows, mod_info) ==
    {i \in 1..Len(rows) :
        /\ rows[i].MODID = mod_info.modid
        /\ rows[i].VERSION = mod_info.curseforge
        /\ rows[i].CURSEFORGE = mod_info.version}

\* SELECT KEY, ID FROM dict WHERE MODID=? AND VERSION=? AND CURSEFORGE=?
Selected(rows, mod_info) ==
    {i \in 1..Len(rows) :
        /\ rows[i].MODID = mod_info.modid
        /\ rows[i].VERSION = mod_info.version
        /\ rows[i].CURSEFORGE = mod_info.curseforge}

\* existing_map = {row[0]: row[1] for row in cursor.fetchall()} followed by
\* existing_map.get(key): the ID of the last selected row with that KEY, and
\* None (0 here; both are falsy) when there is none
existing_map_get(rows, mod_info, key) ==
    LET hits == {i \in Selected(rows, mod_info) : rows[i].KEY = key}
    IN  IF hits = {} THEN 0 ELSE rows[Max(hits)].ID

IsExisting_Never(existing_id) == FALSE

\* if existing_id:
IsExisting(existing_id) == existing_id /= 0

CountSkip_Forgotten(skipped) == skipped

\* skipped += 1
CountSkip(skipped) == skipped + 1

\* the entry dict appended to diff_entries
DiffEntry(mod_info, key, origin, trans) ==
    [origin_name |-> origin, trans_name |-> trans, modid |-> mod_info.modid,
     key |-> key, version |-> mod_info.version,
     curseforge |-> mod_info.curseforge]

RECURSIVE LoopKeys(_, _, _, _, _)
\* for key in common_keys: ... , the keys taken in the order `order`
LoopKeys(order, i, mod_info, rows, acc) ==
    IF i > Len(order) THEN acc
    ELSE LET key == order[i]
             origin == mod_info.en.data[key]
             trans == mod_info.zh.data[key]
             existing_id == existing_map_get(rows, mod_info, key)
         IN  IF ~IsStr(origin) \/ ~IsStr(trans)
             THEN LoopKeys(order, i + 1, mod_info, rows,
                      [acc EXCEPT !.skipped = CountSkip(@)])
             ELSE LoopKeys(order, i + 1, mod_info, rows,
                      IF IsExisting(existing_id)
                      THEN [acc EXCEPT
                              !.diff_entries = Append(@, DiffEntry(mod_info, key, origin.text, trans.text)),
                              !.to_update = Append(@, [origin |-> origin.text, trans |-> trans.text, id |-> existing_id])]
                      ELSE [acc EXCEPT
                              !.diff_entries = Append(@, DiffEntry(mod_info, key, origin.text, trans.text)),
                              !.to_insert = Append(@, [origin |-> origin.text, trans |-> trans.text,
                                                       modid |-> mod_info.modid, key |-> key,
                                                       version |-> mod_info.version,
                                                       curseforge |-> mod_info.curseforge])])

EmptyAcc == [to_update |-> <<>>, to_insert |-> <<>>, diff_entries |-> <<>>, skipped |-> 0]

UpdateRow_ByKey(rows, u) ==
    LET target == CHOOSE i \in 1..Len(rows) : rows[i].ID = u.id
    IN  [i \in 1..Len(rows) |->
            IF rows[i].KEY = rows[target].KEY
            THEN [rows[i] EXCEPT !.ORIGIN_NAME = u.origin, !.TRANS_NAME = u.trans]
            ELSE rows[i]]

\* UPDATE dict SET ORIGIN_NAME=?, TRANS_NAME=? WHERE ID=?
UpdateRow(rows, u) ==
    [i \in 1..Len(rows) |->
        IF rows[i].ID = u.id
        THEN [rows[i] EXCEPT !.ORIGIN_NAME = u.origin, !.TRANS_NAME = u.trans]
        ELSE rows[i]]

\* ID INTEGER PRIMARY KEY AUTOINCREMENT: the program deletes nothing, so the
\* next ID is one more than the largest ID of the table (IDs start at 1)
NextId(rows) == IF rows = <<>> THEN 1 ELSE Max({rows[i].ID : i \in 1..Len(rows)}) + 1

\* INSERT INTO dict (ORIGIN_NAME, TRANS_NAME, MODID, KEY, VERSION, CURSEFORGE) VALUES (...)
InsertRow(rows, t) ==
    Append(rows, [ID |-> NextId(rows), ORIGIN_NAME |-> t.origin, TRANS_NAME |-> t.trans,
                  MODID |-> t.modid, KEY |-> t.key, VERSION |-> t.version,
                  CURSEFORGE |-> t.curseforge])

\* a text with a lone surrogate (JSON "\ud800", which json.load accepts)
\* cannot be encoded as UTF-8: binding it to a statement raises
Surrogate == "\\ud800"

Bindable(text) == text /= Surrogate

RECURSIVE ExecuteUpdates(_, _, _)
\* cursor.executemany(UPDATE ..., to_update): the statements run in order and
\* the call raises at the first one a parameter of which cannot be bound; the
\* statements already run stay in the transaction
ExecuteUpdates(st, to_update, i) ==
    IF i > Len(to_update) THEN st
    ELSE IF ~Bindable(to_update[i].origin) \/ ~Bindable(to_update[i].trans)
    THEN [st EXCEPT !.raised = TRUE]
    ELSE LET rows2 == UpdateRow(st.rows, to_update[i])
             hit == {j \in 1..Len(rows2) : rows2[j].ID = to_update[i].id}
         IN  ExecuteUpdates(
                 [st EXCEPT !.rows = rows2,
                            !.written = @ \o [j \in 1..Cardinality(hit) |-> Entry(rows2[Max(hit)])]],
                 to_update, i + 1)

RECURSIVE ExecuteInserts(_, _, _)
\* cursor.executemany(INSERT ..., to_insert), likewise
ExecuteInserts(st, to_insert, i) ==
    IF i > Len(to_insert) THEN st
    ELSE IF ~Bindable(to_insert[i].origin) \/ ~Bindable(to_insert[i].trans)
    THEN [st EXCEPT !.raised = TRUE]
    ELSE LET rows2 == InsertRow(st.rows, to_insert[i])
         IN  ExecuteInserts(
                 [st EXCEPT !.rows = rows2,
                            !.written = Append(@, Entry(rows2[Len(rows2)]))],
                 to_insert, i + 1)

\* what a call that raises leaves behind: str(e), the table and the
\* statements that ran
Raised(text, rows, written) ==
    [raised |-> TRUE, error |-> text, inserted |-> 0, updated |-> 0,
     skipped |-> 0, diff_entries |-> <<>>, rows |-> rows, written |-> written]

\* merge_mod_entries(cursor, mod_info): the return value, or the exception,
\* and the table and the statements executed when the call ends.  `order` is
\* the iteration order of the set common_keys.  A file that cannot be read
\* or parsed stands for every exception raised before the first write.
merge_mod_entries(rows, mod_info, order) ==
    IF ~mod_info.en.readable \/ ~mod_info.zh.readable
    THEN Raised("JSONDecodeError", rows, <<>>)
    ELSE LET acc == LoopKeys(order, 1, mod_info, rows, EmptyAcc)
             st0 == [rows |-> rows, written |-> <<>>, raised |-> FALSE]
             st1 == IF acc.to_update /= <<>>
                    THEN ExecuteUpdates(st0, acc.to_update, 1) ELSE st0
         IN  IF st1.raised
             THEN Raised("UnicodeEncodeError", st1.rows, st1.written)
             ELSE LET st2 == IF acc.to_insert /= <<>>
                             THEN ExecuteInserts(st1, acc.to_insert, 1) ELSE st1
                  IN  IF st2.raised
                      THEN Raised("UnicodeEncodeError", st2.rows, st2.written)
                      ELSE [raised |-> FALSE, error |-> "",
                            inserted |-> Len(acc.to_insert),
                            updated |-> Len(acc.to_update),
                            skipped |-> acc.skipped,
                            diff_entries |-> acc.diff_entries,
                            rows |-> st2.rows, written |-> st2.written]

----------------------------------------------------------------------------
(* generate_release_body and the summaries of main().                      *)

\* the summary appended after a call that returned
SuccessSummary(mod_info, r) ==
    [modid |-> mod_info.modid, version |-> mod_info.version,
     inserted |-> r.inserted, updated |-> r.updated, skipped |-> r.skipped,
     error |-> [none |-> TRUE, text |-> ""]]

FailureSummary_KeepsCounts(mod_info, text) ==
    [modid |-> mod_info.modid, version |-> mod_info.version,
     inserted |-> 1, updated |-> 0, skipped |-> 0,
     error |-> [none |-> FALSE, text |-> text]]

\* the summary appended by `except Exception as e`, error = str(e)
FailureSummary(mod_info, text) ==
    [modid |-> mod_info.modid, version |-> mod_info.version,
     inserted |-> 0, updated |-> 0, skipped |-> 0,
     error |-> [none |-> FALSE, text |-> text]]

\* not s.get("error"): None and the empty string are both falsy
NoErrorShown(s) == s.error.none \/ s.error.text = ""

\* one table row of release_body.md
ReleaseRow(s) ==
    [modid |-> s.modid, version |-> s.version, inserted |-> s.inserted,
     updated |-> s.updated, skipped |-> s.skipped,
     status |-> IF NoErrorShown(s) THEN "ok" ELSE "failed: " \o s.error.text]

RECURSIVE SumChanged(_, _)
\* total_diff = sum(s["inserted"] + s["updated"] for s in summaries)
SumChanged(sums, i) ==
    IF i > Len(sums) THEN 0
    ELSE sums[i].inserted + sums[i].updated + SumChanged(sums, i + 1)

\* generate_release_body(summaries, diff_count): the header's total, and
\* either the "nothing merged" line or one table row per summary
generate_release_body(sums, diff_count) ==
    [diff_count |-> diff_count,
     nothing_merged |-> (sums = <<>>),
     rows |-> [i \in 1..Len(sums) |-> ReleaseRow(sums[i])]]

----------------------------------------------------------------------------
(* The inputs of a run: the upstream snapshot and the scanned scopes.      *)

L50 == "12345678901234567890123456789012345678901234567890"
L51 == "123456789012345678901234567890123456789012345678901"

Scope(version, modid, curseforge, en, zh) ==
    [version |-> version, modid |-> modid, curseforge |-> curseforge,
     en |-> en, zh |-> zh]

FooEn == Parsed([k \in {"item.foo", "item.bar"} |->
                    IF k = "item.foo" THEN Str("Foo Item") ELSE Str("Bar")])
FooZh == Parsed([k \in {"item.foo", "item.bar"} |->
                    IF k = "item.foo" THEN Str("fu xiangmu") ELSE Str("ba")])
FooZh2 == Parsed([k \in {"item.foo", "item.bar"} |->
                    IF k = "item.foo" THEN Str("fu xiangmu") ELSE Str("baer")])

\* the scope of the end-to-end example, and its second run with item.bar retranslated
ScopeFoo == Scope("1.20", "foo", "foo-mod", FooEn, FooZh)
ScopeFoo2 == Scope("1.20", "foo", "foo-mod", FooEn, FooZh2)

\* the same modid under another version: a structured value, and keys that
\* only one of the two files holds
ScopeFoo121 ==
    Scope("1.21", "foo", "foo-mod",
          Parsed([k \in {"item.bar", "item.tip", "item.en"} |->
                    CASE k = "item.bar" -> Str("Bar")
                      [] k = "item.tip" -> Obj
                      [] k = "item.en" -> Str("English only")]),
          Parsed([k \in {"item.bar", "item.tip", "item.zh"} |->
                    CASE k = "item.bar" -> Str("baer")
                      [] k = "item.tip" -> Str("tishi")
                      [] k = "item.zh" -> Str("zhongwen")]))

\* a scope whose en_us.json does not parse
ScopeBroken == Scope("1.20", "bar", "bar", Unreadable, FooZh)

\* the scope of ScopeFoo with source texts the artifacts filter out
ScopeFooFiltered ==
    Scope("1.20", "foo", "foo-mod",
          Parsed([k \in {"item.foo", "item.bar"} |->
                    IF k = "item.foo" THEN Str("") ELSE Str(L51)]),
          FooZh)

\* the scope of ScopeFoo with a translation that cannot be stored
ScopeSurrogate ==
    Scope("1.20", "foo", "foo-mod", FooEn,
          Parsed([k \in {"item.foo", "item.bar"} |->
                    IF k = "item.foo" THEN Str(Surrogate) ELSE Str("ba")]))

\* a source text of exactly 50 characters, and an untranslated pair
ScopeBar ==
    Scope("1.20", "bar", "bar",
          Parsed([k \in {"item.foo", "item.bar"} |->
                    IF k = "item.foo" THEN Str(L50) ELSE Str("Same")]),
          Parsed([k \in {"item.foo", "item.bar"} |->
                    IF k = "item.foo" THEN Str("wushi") ELSE Str("Same")]))

\* what scan_assets() can return
ScanResults ==
    {<<>>,
     <<ScopeFoo>>, <<ScopeFoo2>>, <<ScopeFooFiltered>>,
     <<ScopeFoo, ScopeFoo>>, <<ScopeFoo, ScopeFoo121>>,
     <<ScopeFoo121, ScopeFoo121>>,
     <<ScopeBroken, ScopeFoo>>, <<ScopeSurrogate, ScopeBar>>}

\* the upstream Dict-Sqlite.db of the latest release, when there is one
Snapshot ==
    <<[ID |-> 3, ORIGIN_NAME |-> "Bar", TRANS_NAME |-> "ba xia",
       MODID |-> "foo", KEY |-> "item.bar", VERSION |-> "1.21",
       CURSEFORGE |-> "foo-mod"],
      [ID |-> 7, ORIGIN_NAME |-> "Bar", TRANS_NAME |-> "ba shang",
       MODID |-> "foo", KEY |-> "item.bar", VERSION |-> "1.20",
       CURSEFORGE |-> "foo-mod"]>>

----------------------------------------------------------------------------
(* main().                                                                 *)

Init ==
    /\ pc = "start"
    /\ run = 1
    /\ db = <<>>
    /\ store = <<>>
    /\ mod_entries = <<>>
    /\ idx = 1
    /\ summaries = <<>>
    /\ all_diff_entries = <<>>
    /\ writes = <<>>
    /\ jsonFile = Absent
    /\ miniFile = Absent
    /\ diffFile = Absent
    /\ releaseBody = Absent

\* download_upstream_db + sqlite3.connect + initialize_db: the snapshot
\* replaces the file when it is downloaded; otherwise the file of the output
\* directory is opened (created empty when there is none)
Download ==
    /\ pc = "start"
    /\ \E downloaded \in BOOLEAN :
          db' = IF downloaded THEN Snapshot ELSE db
    /\ store' = db'
    /\ pc' = "scan"
    /\ UNCHANGED <<run, mod_entries, idx, summaries, all_diff_entries, writes,
                   jsonFile, miniFile, diffFile, releaseBody>>

\* mod_entries = scan_assets(); if not mod_entries: conn.close(); return
Scan ==
    /\ pc = "scan"
    /\ \E found \in ScanResults :
          /\ mod_entries' = found
          /\ pc' = IF found = <<>> THEN "done" ELSE "merge"
    /\ idx' = 1
    /\ summaries' = <<>>
    /\ all_diff_entries' = <<>>
    /\ writes' = <<>>
    /\ UNCHANGED <<run, db, store, jsonFile, miniFile, diffFile, releaseBody>>

\* one iteration of `for mod_info in mod_entries`, its try/except included
MergeScope ==
    /\ pc = "merge"
    /\ idx <= Len(mod_entries)
    /\ LET mod_info == mod_entries[idx] IN
       \E order \in SetToSeqs(common_keys(mod_info)) :
          LET r == merge_mod_entries(store, mod_info, order) IN
          /\ store' = r.rows
          /\ writes' = writes \o r.written
          /\ all_diff_entries' = IF r.raised THEN all_diff_entries
                                 ELSE all_diff_entries \o r.diff_entries
          /\ summaries' = Append(summaries,
                                 IF r.raised THEN FailureSummary(mod_info, r.error)
                                 ELSE SuccessSummary(mod_info, r))
    /\ idx' = idx + 1
    /\ UNCHANGED <<pc, run, db, mod_entries, jsonFile, miniFile, diffFile, releaseBody>>

\* conn.commit(); conn.close()
Commit ==
    /\ pc = "merge"
    /\ idx > Len(mod_entries)
    /\ db' = store
    /\ pc' = "regen"
    /\ UNCHANGED <<run, store, mod_entries, idx, summaries, all_diff_entries,
                   writes, jsonFile, miniFile, diffFile, releaseBody>>

\* regenerate_release_files(db_path, OUTPUT_DIR)
Regenerate ==
    /\ pc = "regen"
    /\ LET scanned == ScanEntries(all_entries(db), 1, <<>>, <<>>) IN
          /\ jsonFile' = WriteUnlessEmpty(jsonFile, scanned.integral)
          /\ miniFile' = WriteUnlessEmpty(miniFile,
                             integral_mini_final(scanned.integral_mini_temp))
    /\ pc' = "diff"
    /\ UNCHANGED <<run, db, store, mod_entries, idx, summaries, all_diff_entries,
                   writes, diffFile, releaseBody>>

\* json.dump(all_diff_entries, f, ...) into diff.json
WriteDiff ==
    /\ pc = "diff"
    /\ diffFile' = Written(all_diff_entries)
    /\ pc' = "body"
    /\ UNCHANGED <<run, db, store, mod_entries, idx, summaries, all_diff_entries,
                   writes, jsonFile, miniFile, releaseBody>>

\* release_body.md = generate_release_body(summaries, total_diff)
WriteReleaseBody ==
    /\ pc = "body"
    /\ releaseBody' = Written(generate_release_body(summaries, SumChanged(summaries, 1)))
    /\ pc' = "done"
    /\ UNCHANGED <<run, db, store, mod_entries, idx, summaries, all_diff_entries,
                   writes, jsonFile, miniFile, diffFile>>

\* main() is invoked again on the same output directory; the locals of the
\* finished invocation are gone
NextRun ==
    /\ pc = "done"
    /\ run < MaxRuns
    /\ run' = run + 1
    /\ pc' = "start"
    /\ mod_entries' = <<>>
    /\ idx' = 1
    /\ summaries' = <<>>
    /\ all_diff_entries' = <<>>
    /\ writes' = <<>>
    /\ UNCHANGED <<db, store, jsonFile, miniFile, diffFile, releaseBody>>

Next ==
    \/ Download
    \/ Scan
    \/ MergeScope
    \/ Commit
    \/ Regenerate
    \/ WriteDiff
    \/ WriteReleaseBody
    \/ NextRun

Spec == Init /\ [][Next]_vars

----------------------------------------------------------------------------
(* regenerate_release_files applied to a table drawn from bounded sets.    *)

DrawnRow(i, p) ==
    [ID |-> i, ORIGIN_NAME |-> p.origin, TRANS_NAME |-> p.trans, MODID |-> "foo",
     KEY |-> "item." \o ToString(i), VERSION |-> "1.20", CURSEFORGE |-> "foo-mod"]

DrawnTable(ps) == [i \in 1..Len(ps) |-> DrawnRow(i, ps[i])]

\* tables whose rows share few source texts and few translations
RankTables ==
    {DrawnTable(ps) :
        ps \in SeqsUpTo([origin : {"X", "A"}, trans : {"A", "B", "C"}], MaxRankRows)}

\* tables with source texts at and around the bounds of the filter
FilterTables ==
    {DrawnTable(ps) :
        ps \in SeqsUpTo([origin : {"", "X", L50, L51}, trans : {"A", "X"}], MaxFilterRows)}

InitRegen ==
    /\ pc = "regen"
    /\ run = 1
    /\ db \in RankTables \cup FilterTables
    /\ store = db
    /\ mod_entries = <<>>
    /\ idx = 1
    /\ summaries = <<>>
    /\ all_diff_entries = <<>>
    /\ writes = <<>>
    /\ jsonFile = Absent
    /\ miniFile = Absent
    /\ diffFile = Absent
    /\ releaseBody = Absent

NextRegen == Regenerate

SpecRegen == InitRegen /\ [][NextRegen]_vars

----------------------------------------------------------------------------
(* Properties.                                                             *)

NaturalKey(r) == <<r.MODID, r.KEY, r.VERSION, r.CURSEFORGE>>

NaturalKeyUnique(rows) ==
    \A i, j \in 1..Len(rows) : i /= j => NaturalKey(rows[i]) /= NaturalKey(rows[j])

ScopeId(mod_info) == <<mod_info.modid, mod_info.version, mod_info.curseforge>>

\* a step of the for loop of main(): one call of merge_mod_entries
MergeStep == pc = "merge" /\ idx' = idx + 1

\* the shared keys of a scope both values of which are strings
AcceptedKeys(mod_info) ==
    {k \in common_keys(mod_info) :
        IsStr(mod_info.en.data[k]) /\ IsStr(mod_info.zh.data[k])}

SummarySum(s) == s.inserted + s.updated + s.skipped

\* the run went through the loop (scan_assets() returned scopes) and ended
RunCompleted == pc = "done" /\ mod_entries /= <<>>

\* C1: no two rows of the table, as the cursor sees it or as committed,
\* share the same (MODID, KEY, VERSION, CURSEFORGE), whatever scopes were
\* merged and however many times main() ran.
C1_NaturalKeyUnique == NaturalKeyUnique(store) /\ NaturalKeyUnique(db)

\* a second run has ended in which two scopes of the same (modid, version,
\* curseforge) were merged into a table that already held rows
C1_Witness ==
    /\ RunCompleted
    /\ run > 1
    /\ Len(mod_entries) = 2
    /\ ScopeId(mod_entries[1]) = ScopeId(mod_entries[2])
    /\ summaries[1].updated > 0
    /\ summaries[2].updated > 0
    /\ Len(db) >= 3

\* C2: a call of merge_mod_entries keeps every row of the table at its place
\* with its ID, MODID, KEY, VERSION and CURSEFORGE; a row whose natural key
\* the scope presents with two strings gets the presented texts (when the
\* call raises, it has them or is untouched); every other row is unchanged;
\* and no row is added under a natural key the table already held.
C2_UpsertInPlace ==
    [][MergeStep =>
        LET mod_info == mod_entries[idx]
            Presented(r) == /\ <<r.MODID, r.VERSION, r.CURSEFORGE>> = ScopeId(mod_info)
                            /\ r.KEY \in AcceptedKeys(mod_info)
            returned == summaries'[idx].error.none
        IN  /\ Len(store') >= Len(store)
            /\ \A i \in 1..Len(store) :
                  /\ store'[i].ID = store[i].ID
                  /\ NaturalKey(store'[i]) = NaturalKey(store[i])
                  /\ ~Presented(store[i]) => store'[i] = store[i]
                  /\ Presented(store[i]) =>
                        \/ /\ store'[i].ORIGIN_NAME = mod_info.en.data[store[i].KEY].text
                           /\ store'[i].TRANS_NAME = mod_info.zh.data[store[i].KEY].text
                        \/ ~returned /\ store'[i] = store[i]
            /\ \A j \in (Len(store) + 1)..Len(store') :
                  \A i \in 1..Len(store) : NaturalKey(store'[j]) /= NaturalKey(store[i])
    ]_vars

\* a row of the snapshot was overwritten in place by the scope of the
\* end-to-end example, beside the snapshot's other row, which is as it was,
\* and a row the same call inserted
C2_Witness ==
    /\ pc = "merge"
    /\ idx = 2
    /\ mod_entries[1] = ScopeFoo
    /\ summaries[1].updated = 1
    /\ summaries[1].inserted = 1
    /\ Len(store) = 3
    /\ store[1] = Snapshot[1]
    /\ store[2].ID = 7
    /\ store[2].ORIGIN_NAME = "Bar"
    /\ store[2].TRANS_NAME = "ba"
    /\ store[3].ID = 8

\* C3 as stated: for every scope of the run summary the three counts add up
\* to the number of keys that both mappings hold.
C3_EveryScopeAddsUp ==
    \A i \in 1..Len(summaries) :
        SummarySum(summaries[i]) = Cardinality(common_keys(mod_entries[i]))

\* C3: for every scope of the run summary whose call returned, the three
\* counts add up to the number of keys that both mappings hold (keys of one
\* mapping only count nowhere); a scope whose call raised has three zeros.
C3_CountAccounting ==
    \A i \in 1..Len(summaries) :
        IF summaries[i].error.none
        THEN SummarySum(summaries[i]) = Cardinality(common_keys(mod_entries[i]))
        ELSE SummarySum(summaries[i]) = 0

\* a scope with a skipped pair, an inserted pair and keys of one mapping only
\* was merged
C3_Witness ==
    \E i \in 1..Len(summaries) :
        /\ summaries[i].error.none
        /\ summaries[i].skipped = 1
        /\ summaries[i].inserted = 1
        /\ DOMAIN mod_entries[i].en.data /= DOMAIN mod_entries[i].zh.data
        /\ Cardinality(common_keys(mod_entries[i])) = 2

\* the scope just merged is the scope merged right before it, unchanged
Remerge == MergeStep /\ idx > 1 /\ mod_entries[idx] = mod_entries[idx - 1]

C5_FailureIsolation ==
    /\ pc = "merge" => Len(summaries) = idx - 1 /\ idx <= Len(mod_entries) + 1
    /\ (pc \in {"regen", "diff", "body"} \/ RunCompleted) =>
          Len(summaries) = Len(mod_entries)
    /\ \A i \in 1..Len(summaries) :
          /\ summaries[i].modid = mod_entries[i].modid
          /\ summaries[i].version = mod_entries[i].version
          /\ ~summaries[i].error.none =>
                /\ summaries[i].inserted = 0
                /\ summaries[i].updated = 0
                /\ summaries[i].skipped = 0
                /\ summaries[i].error.text \in {"JSONDecodeError", "UnicodeEncodeError"}
          /\ summaries[i].error.none <=>
                /\ mod_entries[i].en.readable /\ mod_entries[i].zh.readable
                /\ \A k \in AcceptedKeys(mod_entries[i]) :
                      /\ Bindable(mod_entries[i].en.data[k].text)
                      /\ Bindable(mod_entries[i].zh.data[k].text)
    /\ RunCompleted =>
          /\ releaseBody.exists
          /\ ~releaseBody.content.nothing_merged
          /\ Len(releaseBody.content.rows) = Len(mod_entries)
          /\ \A i \in 1..Len(mod_entries) :
                LET row == releaseBody.content.rows[i] IN
                /\ row.modid = mod_entries[i].modid
                /\ row.version = mod_entries[i].version
                /\ row.inserted = summaries[i].inserted
                /\ row.updated = summaries[i].updated
                /\ row.skipped = summaries[i].skipped
                /\ row.status = IF summaries[i].error.none THEN "ok"
                                ELSE "failed: " \o summaries[i].error.text

\* a run ended whose first scope failed and whose second scope was merged
C5_Witness ==
    /\ RunCompleted
    /\ Len(mod_entries) = 2
    /\ ~summaries[1].error.none
    /\ summaries[2].error.none
    /\ summaries[2].inserted + summaries[2].updated = 2
    /\ releaseBody.content.rows[1].status = "failed: JSONDecodeError"
    /\ releaseBody.content.rows[2].status = "ok"

\* C6: at the end of a run diff.json holds exactly one entry for each pair
\* the run wrote into the committed table and none for a pair it did not
\* write, so its length is the total of release_body.md.
C6_DiffMatchesWrites ==
    RunCompleted =>
        /\ diffFile.exists
        /\ \A e \in Range(diffFile.content) \cup Range(writes) :
              Count(diffFile.content, e) = Count(writes, e)
        /\ Len(diffFile.content) = releaseBody.content.diff_count

\* the source text of a Dict.json entry or of a Dict-Mini.json group passes
\* the filter
Kept(text) == Len(text) >= 1 /\ Len(text) <= MaxOriginLen

KeptEntry(e) == Kept(e.origin_name)

\* C7: after a regeneration no entry of Dict.json and no key of
\* Dict-Mini.json has an empty source text or one longer than 50 characters,
\* and Dict.json holds every entry of the table whose source text has 1 to 50
\* characters, in the order of the table.
C7_ArtifactFilter ==
    pc = "diff" =>
        /\ \A i \in 1..Len(jsonFile.content) : Kept(jsonFile.content[i].origin_name)
        /\ \A g \in 1..Len(miniFile.content) : Kept(miniFile.content[g].origin)
        /\ jsonFile.content = SelectSeq(all_entries(db), KeptEntry)

\* a table with an empty source text, one of 50 and one of 51 characters was
\* regenerated, and only the one of 50 characters is in Dict.json
C7_Witness ==
    /\ pc = "diff"
    /\ {db[i].ORIGIN_NAME : i \in 1..Len(db)} = {"", L50, L51}
    /\ Len(jsonFile.content) = 1
    /\ jsonFile.content[1].origin_name = L50

\* the rows of the table that count for the group of `origin`
Candidates(origin) ==
    {i \in 1..Len(db) :
        /\ db[i].ORIGIN_NAME = origin
        /\ Kept(origin)
        /\ db[i].TRANS_NAME /= origin}

Occurrences(origin, t) == Cardinality({i \in Candidates(origin) : db[i].TRANS_NAME = t})

FirstSeen(origin, t) ==
    CHOOSE i \in Candidates(origin) :
        /\ db[i].TRANS_NAME = t
        /\ \A j \in Candidates(origin) : db[j].TRANS_NAME = t => i <= j

\* C8: every group of Dict-Mini.json lists each translation of the group's
\* candidate rows (kept source text, translation different from it) exactly
\* once, by descending number of occurrences and, among equal numbers, by
\* first occurrence in the table; every source text with a candidate has
\* exactly one group.
C8_MiniRanking ==
    pc = "diff" =>
        LET mini == miniFile.content IN
        /\ \A g, h \in 1..Len(mini) : g /= h => mini[g].origin /= mini[h].origin
        /\ {mini[g].origin : g \in 1..Len(mini)} =
              {db[i].ORIGIN_NAME : i \in {i \in 1..Len(db) : Candidates(db[i].ORIGIN_NAME) /= {}}}
        /\ \A g \in 1..Len(mini) :
              LET o == mini[g].origin
                  list == mini[g].trans_list
              IN  /\ Range(list) = {db[i].TRANS_NAME : i \in Candidates(o)}
                  /\ \A j, k \in 1..Len(list) :
                        j < k =>
                           /\ list[j] /= list[k]
                           /\ \/ Occurrences(o, list[j]) > Occurrences(o, list[k])
                              \/ /\ Occurrences(o, list[j]) = Occurrences(o, list[k])
                                 /\ FirstSeen(o, list[j]) < FirstSeen(o, list[k])

\* the table holds the translations A, C, B, A, B of one source text, in
\* that order, and the group reads A, B, C
C8_Witness ==
    /\ pc = "diff"
    /\ Len(db) = 5
    /\ \A i \in 1..5 : db[i].ORIGIN_NAME = "X"
    /\ [i \in 1..5 |-> db[i].TRANS_NAME] = <<"A", "C", "B", "A", "B">>
    /\ miniFile.content = <<[origin |-> "X", trans_list |-> <<"A", "B", "C">>]>>

\* what regenerate_release_files computes from a table
Artifacts(rows) ==
    LET scanned == ScanEntries(all_entries(rows), 1, <<>>, <<>>)
    IN  [full |-> scanned.integral,
         mini |-> integral_mini_final(scanned.integral_mini_temp)]

\* C9: when a run has ended, a table without any kept entry means that
\* neither Dict.json nor Dict-Mini.json exists, and after a regeneration each
\* of the two files exists exactly if its content is not empty.
C9_AbsentWhenEmpty ==
    /\ pc = "done" =>
          ((\A i \in 1..Len(db) : ~Kept(db[i].ORIGIN_NAME)) =>
              ~jsonFile.exists /\ ~miniFile.exists)
    /\ RunCompleted =>
          /\ jsonFile.exists <=> Artifacts(db).full /= <<>>
          /\ miniFile.exists <=> Artifacts(db).mini /= <<>>

\* C10: the artifacts computed from the table a merge leaves do not depend
\* on the order in which the set common_keys is iterated.
C10_OrderIndependent ==
    [][(MergeStep /\ summaries'[idx].error.none) =>
        \A order \in SetToSeqs(common_keys(mod_entries[idx])) :
            Artifacts(merge_mod_entries(store, mod_entries[idx], order).rows)
                = Artifacts(store')
    ]_vars

====
